---- MODULE Spec2Model ----
(***************************************************************************)
(* Model of zfit/core/constraint.py: the constraint classes                *)
(* (SimpleConstraint, SamplableConstraint, DistributionConstraint,         *)
(* GaussianConstraint) over live, mutable Parameters.                      *)
(*                                                                         *)
(* Parameters are identified by their name; pval maps every existing       *)
(* Parameter to its current value.  One constraint object is constructed   *)
(* and then used while parameter values change.  Every call is one action; *)
(* lastop / outcome / ret / trace describe the call that has just ended.   *)
(*                                                                         *)
(* Numbers are integers.  The negated log-density of the multivariate      *)
(* normal is kept exactly, as the triple (n, det S, d^T adj(S) d) with     *)
(* d = x - loc, which stands for                                           *)
(*     1/2 * ( n*log(2 pi) + log(det S) + (d^T adj(S) d) / det S ).        *)
(***************************************************************************)
EXTENDS Integers, Sequences, FiniteSets, TLC

VARIABLES
    pval,     \* Parameter name -> current value (the live parameter state)
    obj,      \* the constraint object (NoObj before a successful construction)
    args,     \* the arguments of the last constructor call
    lastop,   \* the call that has just ended
    outcome,  \* "none", "returned" or the name of the exception raised
    ret,      \* what the call returned
    trace,    \* the collaborators the call invoked, in order
    draw,     \* the array the backend drew in the last sample() call
    failed    \* an access of this constraint has ended in ShapeIncompatibleError

vars == <<pval, obj, args, lastop, outcome, ret, trace, draw, failed>>

-----------------------------------------------------------------------------
(* Bounds of the model *)

MaxLen == 2      \* longest x / mu / sigma sequence, largest matrix side
MaxDraws == 2    \* largest n of sample(n)

(* The Parameters the caller owns, and the values they take *)
Params == {"a", "b", "s"}
MuPool == {"a", "b"}
Vals == {1, 2}
InitVal == [p \in Params |-> 1]
Seeds == {0, 5}

ShapeErr == "ShapeIncompatibleError"
FuncErr == "FuncError"
NoObj == [cls |-> "none"]
NoArgs == [cls |-> "none"]
None == <<>>

-----------------------------------------------------------------------------
(* Values handed to the constructors.  An element is a literal number or a *)
(* Parameter; an argument is a single element (Scalar) or a non-empty list.*)
(* A mu list holds distinct Parameters: the observed-value Parameter made  *)
(* for a literal x is named after its mu Parameter, and names are unique.  *)

Lit(n) == [tag |-> "lit", n |-> n, p |-> ""]
Par(p) == [tag |-> "par", n |-> 0, p |-> p]

Scalar(e) == [form |-> "scalar", v |-> <<e>>]
List(s) == [form |-> "seq", v |-> s]

SeqsUpTo(S, n) == UNION {[1..k -> S] : k \in 1..n}

IsInjective(s) ==
    \A i, j \in 1..Len(s) : s[i] = s[j] => i = j

XEntries == {Lit(1), Par("b")}
XInputs == {Scalar(e) : e \in XEntries} \cup {List(s) : s \in SeqsUpTo(XEntries, MaxLen)}

MuEntries == {Par(p) : p \in MuPool}
MuInputs ==
    {Scalar(e) : e \in MuEntries}
        \cup {List(s) : s \in {t \in SeqsUpTo(MuEntries, MaxLen) : IsInjective(t)}}

(* sigma as supplied: a tensor-like value of rank 0, 1 or 2.  v holds the  *)
(* rows; a rank-0 value is v[1][1] and a rank-1 value is v[1].  Standard   *)
(* deviations are positive and square matrices are symmetric positive      *)
(* definite for every value in Vals, so the backend's validate_args checks *)
(* pass; r x c matrices with r # c are the non-square inputs.              *)
SigmaHead == {Lit(2), Par("s")}
SigScalar(e) == [rank |-> 0, v |-> <<<<e>>>>]
SigVector(k, e) == [rank |-> 1, v |-> <<[i \in 1..k |-> IF i = 1 THEN e ELSE Lit(i + 1)]>>]
SigMatrix(r, c, e) ==
    [rank |-> 2,
     v |-> [i \in 1..r |-> [j \in 1..c |->
                IF i # j THEN Lit(1) ELSE IF i = 1 THEN e ELSE Lit(i + 1)]]]
SigmaInputs ==
    {SigScalar(e) : e \in SigmaHead}
        \cup {SigVector(k, e) : k \in 1..MaxLen, e \in SigmaHead}
        \cup {SigMatrix(r, c, e) : r \in 1..MaxLen, c \in 1..MaxLen, e \in SigmaHead}

-----------------------------------------------------------------------------
(* Helpers of the repository that the constraint classes call *)

convert_to_container(inp) ==
    IF inp.form = "scalar" THEN <<inp.v[1]>> ELSE inp.v

ObsName(p) == p \o "_obs"

convert_to_parameter(e, name) ==
    IF e.tag = "par" THEN e.p ELSE name

Digits == <<"0", "1", "2", "3", "4", "5", "6", "7", "8", "9">>
SlotName(i) == "param_" \o Digits[i + 1]

Range(s) == {s[i] : i \in 1..Len(s)}

(* faulty variant: the value a Parameter had when it was created *)
ParamValueAtCreation(p, pv) == IF p \in DOMAIN InitVal THEN InitVal[p] ELSE pv[p]
ParamValue(p, pv) == pv[p]

ToTensor(e, pv) ==
    IF e.tag = "par" THEN ParamValue(e.p, pv) ELSE e.n

-----------------------------------------------------------------------------
(* The numeric backend: tensors, diagonal matrices, the multivariate normal *)

Pow2(vec) == [i \in 1..Len(vec) |-> vec[i] * vec[i]]

tensor_diag(vec) ==
    [i \in 1..Len(vec) |-> [j \in 1..Len(vec) |-> IF i = j THEN vec[i] ELSE 0]]

Shape0(m) == Len(m)
Shape1(m) == IF Len(m) = 0 THEN 0 ELSE Len(m[1])

Minor(m, i, j) ==
    [r \in 1..(Len(m) - 1) |-> [c \in 1..(Len(m) - 1) |->
        m[IF r < i THEN r ELSE r + 1][IF c < j THEN c ELSE c + 1]]]

Sign(k) == IF k % 2 = 0 THEN 1 ELSE -1

RECURSIVE SumTo(_, _)
SumTo(f, k) == IF k = 0 THEN 0 ELSE f[k] + SumTo(f, k - 1)

RECURSIVE Det(_)
Det(m) ==
    IF Len(m) = 0 THEN 1
    ELSE SumTo([j \in 1..Len(m) |-> Sign(1 + j) * m[1][j] * Det(Minor(m, 1, j))], Len(m))

Cofactor(m, i, j) == Sign(i + j) * Det(Minor(m, i, j))

(* d^T adj(m) d, with adj(m)[i][j] = Cofactor(m, j, i) *)
QuadAdj(m, d) ==
    SumTo([i \in 1..Len(d) |->
             SumTo([j \in 1..Len(d) |-> d[i] * Cofactor(m, j, i) * d[j]], Len(d))],
          Len(d))

(* log_prob of the multivariate normal: sign -1 marks the log-density,     *)
(* sign +1 its negation                                                     *)
log_prob(dist, x) ==
    [sign |-> -1,
     n |-> Len(dist.loc),
     det |-> Det(dist.covariance_matrix),
     quad |-> QuadAdj(dist.covariance_matrix,
                      [i \in 1..Len(x) |-> x[i] - dist.loc[i]])]

Negate(lp) == [lp EXCEPT !.sign = -lp.sign]

(* distribution.sample(n): n rows, one column per entry of loc *)
BackendSample(dist, n, seed) ==
    [r \in 1..n |-> [c \in 1..Len(dist.loc) |-> seed + 10 * c + r]]

-----------------------------------------------------------------------------
(* SamplableConstraint / DistributionConstraint / GaussianConstraint *)

(* faulty variant: slots numbered from 1 *)
ParamsDictOneBased(mu) ==
    [i \in 1..Len(mu) |-> [slot |-> SlotName(i), param |-> mu[i].p]]
ParamsDict(mu) ==
    [i \in 1..Len(mu) |-> [slot |-> SlotName(i - 1), param |-> mu[i].p]]

ParamsValues(params) == [i \in 1..Len(params) |-> params[i].param]

LenMismatch(x, params) == Len(x) # Len(params)

(* x = [convert_to_parameter(x_, f"{p.name}_obs") for x_, p in zip(...)] *)
BuildX(x, params) ==
    [i \in 1..Len(x) |-> convert_to_parameter(x[i], ObsName(params[i].param))]

x_array(self, pv) == [i \in 1..Len(self.x) |-> ParamValue(self.x[i], pv)]

MuTensor(self, pv) == [i \in 1..Len(self.mu) |-> ParamValue(self.mu[i], pv)]

SigmaTensor(sigma, pv) ==
    [rank |-> sigma.rank,
     v |-> [i \in 1..Len(sigma.v) |-> [j \in 1..Len(sigma.v[i]) |-> ToTensor(sigma.v[i][j], pv)]]]

(* faulty variant: the column count is left out of the comparison *)
ShapesAgreeNoCols(nx, nmu, rows, cols) == nx = nmu /\ nmu = rows
ShapesAgree(nx, nmu, rows, cols) == nx = nmu /\ nmu = rows /\ rows = cols

(* faulty variant: a matrix sigma is squared elementwise like a vector *)
BuildCovarianceSquareAll(sigma) ==
    IF sigma.rank > 1 THEN [i \in 1..Len(sigma.v) |-> Pow2(sigma.v[i])]
    ELSE tensor_diag(Pow2(sigma.v[1]))
BuildCovariance(sigma) ==
    IF sigma.rank > 1 THEN sigma.v
    ELSE IF sigma.rank = 1 THEN tensor_diag(Pow2(sigma.v[1]))
    ELSE tensor_diag(Pow2(<<sigma.v[1][1]>>))

create_covariance(self, pv) ==
    LET mu == MuTensor(self, pv)
        sigma == SigmaTensor(self.sigma, pv)
        x_tensor == x_array(self, pv)
        covariance == BuildCovariance(sigma)
    IN  IF ~ShapesAgree(Len(x_tensor), Len(mu), Shape0(covariance), Shape1(covariance))
        THEN [outcome |-> ShapeErr, value |-> None]
        ELSE [outcome |-> "returned", value |-> covariance]

(* faulty variant: the backend factory is invoked before dist_params() *)
distribution_factory_first(self, pv) ==
    LET cov == create_covariance(self, pv)
    IN  IF cov.outcome # "returned"
        THEN [outcome |-> cov.outcome, dist |-> None,
              trace |-> <<"factory", "dist_params", "create_covariance">>]
        ELSE [outcome |-> "returned",
              dist |-> [family |-> "MultivariateNormalFullCovariance",
                        loc |-> MuTensor(self, pv),
                        covariance_matrix |-> cov.value,
                        validate_args |-> self.dist_kwargs.validate_args,
                        name |-> self.name \o "_tfp"],
              trace |-> <<"factory", "dist_params", "create_covariance">>]
(* the distribution property: dist_params(), which reads self.covariance,   *)
(* then the backend factory; nothing is kept between accesses               *)
distribution(self, pv) ==
    LET cov == create_covariance(self, pv)
    IN  IF cov.outcome # "returned"
        THEN [outcome |-> cov.outcome, dist |-> None,
              trace |-> <<"dist_params", "create_covariance">>]
        ELSE [outcome |-> "returned",
              dist |-> [family |-> "MultivariateNormalFullCovariance",
                        loc |-> MuTensor(self, pv),
                        covariance_matrix |-> cov.value,
                        validate_args |-> self.dist_kwargs.validate_args,
                        name |-> self.name \o "_tfp"],
              trace |-> <<"dist_params", "create_covariance", "factory">>]

(* faulty variant: sample[:, 0] for every i *)
ColumnZero(sample, i) == [r \in 1..Len(sample) |-> sample[r][1]]
Column(sample, i) == [r \in 1..Len(sample) |-> sample[r][i + 1]]

(* {p: sample[:, i] for i, p in enumerate(self.x)}: for a key that occurs  *)
(* at several i the last i stays                                            *)
LastIndex(x, p) ==
    CHOOSE i \in 0..(Len(x) - 1) :
        x[i + 1] = p /\ \A k \in 0..(Len(x) - 1) : x[k + 1] = p => k <= i

SampleDict(x, sample) == [p \in Range(x) |-> Column(sample, LastIndex(x, p))]

get_params(self) == Range(ParamsValues(self.params))

extract_dependents(ps) == ps

(* faulty variant: the observed-value Parameters are reported too *)
get_dependents_with_observed(self) ==
    IF self.cls = "GaussianConstraint"
    THEN extract_dependents(get_params(self) \cup Range(self.x))
    ELSE extract_dependents(get_params(self))
get_dependents(self) == extract_dependents(get_params(self))

(* SimpleConstraint: the user's zero-argument function *)
Funcs == {"const3", "read_a", "raises"}

CallFunc(f, pv) ==
    CASE f = "const3" -> [outcome |-> "returned", value |-> 3]
      [] f = "read_a" -> [outcome |-> "returned", value |-> ParamValue("a", pv)]
      [] OTHER -> [outcome |-> FuncErr, value |-> None]

(* faulty variant: a failing func is called again and 0 is returned *)
SimpleValueRetry(self, pv) ==
    LET r == CallFunc(self.simple_func, pv)
    IN  IF r.outcome = "returned"
        THEN [outcome |-> r.outcome, value |-> r.value, trace |-> <<"func">>]
        ELSE [outcome |-> "returned", value |-> 0, trace |-> <<"func", "func">>]
SimpleValueResult(self, pv) ==
    LET r == CallFunc(self.simple_func, pv)
    IN  [outcome |-> r.outcome, value |-> r.value, trace |-> <<"func">>]

-----------------------------------------------------------------------------
(* The state machine *)

Init ==
    /\ pval = InitVal
    /\ obj = NoObj
    /\ args = NoArgs
    /\ lastop = "none"
    /\ outcome = "none"
    /\ ret = None
    /\ trace = <<>>
    /\ draw = None
    /\ failed = FALSE

Raises(op, exc, tr) ==
    /\ lastop' = op
    /\ outcome' = exc
    /\ ret' = None
    /\ trace' = tr
    /\ draw' = None

Returns(op, value, tr) ==
    /\ lastop' = op
    /\ outcome' = "returned"
    /\ ret' = value
    /\ trace' = tr
    /\ draw' = None

IsGaussian == obj.cls = "GaussianConstraint"
IsSimple == obj.cls = "SimpleConstraint"

(* SamplableConstraint.__init__ as run for a GaussianConstraint: the length *)
(* check, then the observed-value Parameters                                *)
NewGaussian(x, mu, sigma, params) ==
    [cls |-> "GaussianConstraint",
     name |-> "GaussianConstraint",
     params |-> params,
     x |-> BuildX(x, params),
     mu |-> [i \in 1..Len(mu) |-> mu[i].p],
     sigma |-> sigma,
     dist_kwargs |-> [validate_args |-> TRUE]]

WithObserved(pv, x, params) ==
    LET fresh == {i \in 1..Len(x) : x[i].tag = "lit"}
        name(i) == ObsName(params[i].param)
    IN  [q \in DOMAIN pv \cup {name(i) : i \in fresh} |->
            IF q \in DOMAIN pv THEN pv[q]
            ELSE x[CHOOSE i \in fresh : name(i) = q].n]

(* faulty variant: the covariance is built and checked at construction *)
GaussianInitEager(x_in, mu_in, sigma) ==
    LET x == convert_to_container(x_in)
        mu == convert_to_container(mu_in)
        params_dict == ParamsDict(mu)
    IN  /\ obj.cls = "none"
        /\ lastop = "none"
        /\ args' = [cls |-> "GaussianConstraint", x |-> x_in, mu |-> mu_in, sigma |-> sigma]
        /\ IF \/ LenMismatch(x, params_dict)
              \/ create_covariance(NewGaussian(x, mu, sigma, params_dict),
                                  WithObserved(pval, x, params_dict)).outcome # "returned"
           THEN /\ Raises("GaussianConstraint", ShapeErr, <<>>)
                /\ UNCHANGED <<pval, obj, failed>>
           ELSE /\ obj' = NewGaussian(x, mu, sigma, params_dict)
                /\ pval' = WithObserved(pval, x, params_dict)
                /\ Returns("GaussianConstraint", None, <<>>)
                /\ UNCHANGED failed

(* GaussianConstraint(x, mu, sigma) *)
GaussianInit(x_in, mu_in, sigma) ==
    LET x == convert_to_container(x_in)
        mu == convert_to_container(mu_in)
        params_dict == ParamsDict(mu)
    IN  /\ obj.cls = "none"
        /\ lastop = "none"
        /\ args' = [cls |-> "GaussianConstraint", x |-> x_in, mu |-> mu_in, sigma |-> sigma]
        /\ IF LenMismatch(x, params_dict)
           THEN /\ Raises("GaussianConstraint", ShapeErr, <<>>)
                /\ UNCHANGED <<pval, obj, failed>>
           ELSE /\ obj' = NewGaussian(x, mu, sigma, params_dict)
                /\ pval' = WithObserved(pval, x, params_dict)
                /\ Returns("GaussianConstraint", None, <<>>)
                /\ UNCHANGED failed

(* SimpleConstraint(func, params) *)
SimpleInit(func, params_in) ==
    LET params == convert_to_container(params_in)
    IN  /\ obj.cls = "none"
        /\ lastop = "none"
        /\ args' = [cls |-> "SimpleConstraint", func |-> func, params |-> params_in]
        /\ obj' = [cls |-> "SimpleConstraint",
                   name |-> "SimpleConstraint",
                   params |-> ParamsDict(params),
                   simple_func |-> func,
                   simple_func_dependents |-> Range(params)]
        /\ Returns("SimpleConstraint", None, <<>>)
        /\ UNCHANGED <<pval, failed>>

(* a Parameter's value is changed from outside (the minimizer, a toy       *)
(* study) once the constraint exists; Parameters are created with InitVal  *)
SetValue(p, v) ==
    /\ obj.cls # "none"
    /\ p \in DOMAIN pval
    /\ pval[p] # v
    /\ pval' = [pval EXCEPT ![p] = v]
    /\ lastop' = "set_value"
    /\ outcome' = "none"
    /\ ret' = None
    /\ trace' = <<>>
    /\ draw' = None
    /\ UNCHANGED <<obj, args, failed>>

(* constraint.value() *)
Value ==
    /\ obj.cls # "none"
    /\ IF IsSimple
       THEN LET r == SimpleValueResult(obj, pval)
            IN  /\ IF r.outcome = "returned"
                   THEN Returns("value", r.value, r.trace)
                   ELSE Raises("value", r.outcome, r.trace)
                /\ UNCHANGED failed
       ELSE LET d == distribution(obj, pval)
            IN  IF d.outcome = "returned"
                THEN /\ Returns("value", Negate(log_prob(d.dist, x_array(obj, pval))),
                                d.trace \o <<"log_prob">>)
                     /\ UNCHANGED failed
                ELSE /\ Raises("value", d.outcome, d.trace)
                     /\ failed' = TRUE
    /\ UNCHANGED <<pval, obj, args>>

(* constraint.covariance *)
Covariance ==
    /\ IsGaussian
    /\ LET c == create_covariance(obj, pval)
       IN  IF c.outcome = "returned"
           THEN /\ Returns("covariance", c.value, <<"create_covariance">>)
                /\ UNCHANGED failed
           ELSE /\ Raises("covariance", c.outcome, <<"create_covariance">>)
                /\ failed' = TRUE
    /\ UNCHANGED <<pval, obj, args>>

(* constraint.distribution *)
Distribution ==
    /\ IsGaussian
    /\ LET d == distribution(obj, pval)
       IN  IF d.outcome = "returned"
           THEN /\ Returns("distribution", d.dist, d.trace)
                /\ UNCHANGED failed
           ELSE /\ Raises("distribution", d.outcome, d.trace)
                /\ failed' = TRUE
    /\ UNCHANGED <<pval, obj, args>>

(* faulty variant: the first drawn value is stored into the x Parameters *)
SampleAndStore(n, seed) ==
    /\ IsGaussian
    /\ LET d == distribution(obj, pval)
       IN  IF d.outcome = "returned"
           THEN LET sample == BackendSample(d.dist, n, seed)
                IN  /\ lastop' = "sample"
                    /\ outcome' = "returned"
                    /\ ret' = SampleDict(obj.x, sample)
                    /\ trace' = d.trace \o <<"sample">>
                    /\ draw' = sample
                    /\ pval' = [q \in DOMAIN pval |->
                                  IF q \in Range(obj.x) THEN sample[1][1] ELSE pval[q]]
                    /\ UNCHANGED failed
           ELSE /\ Raises("sample", d.outcome, d.trace)
                /\ failed' = TRUE
                /\ UNCHANGED pval
    /\ UNCHANGED <<obj, args>>

(* constraint.sample(n) *)
Sample(n, seed) ==
    /\ IsGaussian
    /\ LET d == distribution(obj, pval)
       IN  IF d.outcome = "returned"
           THEN LET sample == BackendSample(d.dist, n, seed)
                IN  /\ lastop' = "sample"
                    /\ outcome' = "returned"
                    /\ ret' = SampleDict(obj.x, sample)
                    /\ trace' = d.trace \o <<"sample">>
                    /\ draw' = sample
                    /\ UNCHANGED failed
           ELSE /\ Raises("sample", d.outcome, d.trace)
                /\ failed' = TRUE
    /\ UNCHANGED <<pval, obj, args>>

(* constraint.get_dependents() *)
Dependents ==
    /\ obj.cls # "none"
    /\ Returns("get_dependents", get_dependents(obj), <<>>)
    /\ UNCHANGED <<pval, obj, args, failed>>

Next ==
    \/ \E x \in XInputs, mu \in MuInputs, sigma \in SigmaInputs : GaussianInit(x, mu, sigma)
    \/ \E f \in Funcs, ps \in MuInputs : SimpleInit(f, ps)
    \/ \E p \in DOMAIN pval, v \in Vals : SetValue(p, v)
    \/ Value
    \/ Covariance
    \/ Distribution
    \/ \E n \in 1..MaxDraws, seed \in Seeds : Sample(n, seed)
    \/ Dependents

Spec == Init /\ [][Next]_vars

-----------------------------------------------------------------------------
(* What the properties below speak about, read off the constructor         *)
(* arguments and the current parameter values only                         *)

SuppliedX == args.x.v
SuppliedMu == args.mu.v
SuppliedSigma == args.sigma
NofMu == Len(SuppliedMu)

ExpectedSlots == <<"param_0", "param_1", "param_2", "param_3">>

(* the observed-value Parameter built from the i-th supplied x *)
ObservedParam(i) ==
    IF SuppliedX[i].tag = "par" THEN SuppliedX[i].p ELSE SuppliedMu[i].p \o "_obs"

CurrentX == [i \in 1..Len(SuppliedX) |-> pval[ObservedParam(i)]]
CurrentMu == [i \in 1..NofMu |-> pval[SuppliedMu[i].p]]
CurrentOf(e) == IF e.tag = "par" THEN pval[e.p] ELSE e.n

(* the covariance the rank of sigma selects *)
SigmaByRank ==
    IF SuppliedSigma.rank = 0
    THEN <<<<CurrentOf(SuppliedSigma.v[1][1]) * CurrentOf(SuppliedSigma.v[1][1])>>>>
    ELSE IF SuppliedSigma.rank = 1
    THEN [i \in 1..Len(SuppliedSigma.v[1]) |-> [j \in 1..Len(SuppliedSigma.v[1]) |->
             IF i = j
             THEN CurrentOf(SuppliedSigma.v[1][i]) * CurrentOf(SuppliedSigma.v[1][i])
             ELSE 0]]
    ELSE [i \in 1..Len(SuppliedSigma.v) |-> [j \in 1..Len(SuppliedSigma.v[i]) |->
             CurrentOf(SuppliedSigma.v[i][j])]]

SigmaRows ==
    IF SuppliedSigma.rank = 0 THEN 1
    ELSE IF SuppliedSigma.rank = 1 THEN Len(SuppliedSigma.v[1])
    ELSE Len(SuppliedSigma.v)
SigmaCols ==
    IF SuppliedSigma.rank = 0 THEN 1
    ELSE IF SuppliedSigma.rank = 1 THEN Len(SuppliedSigma.v[1])
    ELSE Len(SuppliedSigma.v[1])

SizesAgree ==
    /\ Len(SuppliedX) = NofMu
    /\ SigmaRows = NofMu
    /\ SigmaCols = NofMu

NegLogDensity(x, loc, S) ==
    [sign |-> 1,
     n |-> Len(loc),
     det |-> Det(S),
     quad |-> QuadAdj(S, [i \in 1..Len(x) |-> x[i] - loc[i]])]

Accesses == {"covariance", "distribution", "value", "sample"}
Calls == Accesses \cup {"get_dependents"}

DrawColumn(i) == [r \in 1..Len(draw) |-> draw[r][i]]

-----------------------------------------------------------------------------

(* C1: with consistent lengths N, GaussianConstraint.value() returns the   *)
(* negated log-density, under the multivariate normal with loc = mu and    *)
(* the covariance selected by the rank of sigma (rank 0: [sigma^2], rank 1:*)
(* diag(sigma_i^2), rank 2: sigma unchanged), of the x values taken in     *)
(* construction order.                                                     *)
C1_ValueIsNegLogDensity ==
    (IsGaussian /\ lastop = "value" /\ SizesAgree) =>
        /\ outcome = "returned"
        /\ ret = NegLogDensity(CurrentX, CurrentMu, SigmaByRank)

C1_Witness ==
    /\ IsGaussian
    /\ lastop = "value"
    /\ outcome = "returned"
    /\ SuppliedSigma.rank = 2
    /\ NofMu = 2
    /\ ret.quad # 0

(* C2: every value(), covariance and distribution access returns what the  *)
(* parameter values current at that access give, whatever changes and      *)
(* calls came before: nothing is captured at construction or cached.       *)
C2_NoCaching ==
    (IsGaussian /\ outcome = "returned") =>
        /\ lastop = "covariance" => ret = SigmaByRank
        /\ lastop = "distribution" =>
              /\ ret.loc = CurrentMu
              /\ ret.covariance_matrix = SigmaByRank
        /\ lastop = "value" =>
              /\ ret.det = Det(SigmaByRank)
              /\ ret.quad = QuadAdj(SigmaByRank,
                                    [i \in 1..NofMu |-> CurrentX[i] - CurrentMu[i]])

C2_Witness ==
    /\ IsGaussian
    /\ lastop = "value"
    /\ outcome = "returned"
    /\ failed = FALSE
    /\ SuppliedMu = <<Par("a")>>
    /\ SuppliedX = <<Par("b")>>
    /\ SuppliedSigma = SigScalar(Par("s"))
    /\ pval = [a |-> 2, b |-> 1, s |-> 2]
    /\ ret = [sign |-> 1, n |-> 1, det |-> 4, quad |-> 1]

(* C3: mismatched lengths always end in ShapeIncompatibleError:            *)
(* construction whenever len(x) # len(params); covariance and value()      *)
(* whenever x length, mu length, covariance rows and columns are not all   *)
(* equal; and whenever covariance returns a matrix all four are equal.     *)
C3_MismatchRaises ==
    /\ (lastop = "GaussianConstraint" /\ Len(SuppliedX) # NofMu) =>
          (outcome = ShapeErr /\ obj = NoObj)
    /\ (IsGaussian /\ lastop \in {"covariance", "value"} /\ ~SizesAgree) =>
          outcome = ShapeErr
    /\ (IsGaussian /\ lastop = "covariance" /\ outcome = "returned") =>
          /\ Len(obj.x) = Len(obj.mu)
          /\ Len(obj.mu) = Len(ret)
          /\ \A i \in 1..Len(ret) : Len(ret[i]) = Len(obj.x)

C3_Witness ==
    /\ IsGaussian
    /\ lastop = "value"
    /\ outcome = ShapeErr
    /\ SuppliedSigma.rank = 2
    /\ SigmaRows = NofMu
    /\ SigmaCols # NofMu

(* C4 as stated: constructing a GaussianConstraint never ends in           *)
(* ShapeIncompatibleError, whatever the sizes of x, mu and sigma.          *)
C4_ConstructionNeverRaises ==
    lastop = "GaussianConstraint" => outcome = "returned"

(* C4 amended: construction checks only len(x) against len(mu) and raises  *)
(* ShapeIncompatibleError exactly when they differ; it never checks sigma, *)
(* whose mismatch shows on every covariance, distribution, value() or      *)
(* sample() access.                                                        *)
C4_OnlySigmaCheckIsLazy ==
    /\ lastop = "GaussianConstraint" =>
          /\ outcome = ShapeErr <=> Len(SuppliedX) # NofMu
          /\ outcome = "returned" <=> Len(SuppliedX) = NofMu
          /\ outcome = "returned" <=> IsGaussian
    /\ (IsGaussian /\ lastop \in Accesses /\ ~SizesAgree) => outcome = ShapeErr

C4_Witness ==
    /\ lastop = "GaussianConstraint"
    /\ outcome = "returned"
    /\ IsGaussian
    /\ ~SizesAgree

C6_DependentsAreMu ==
    (IsGaussian /\ lastop = "get_dependents") =>
        /\ outcome = "returned"
        /\ ret = {SuppliedMu[i].p : i \in 1..NofMu}

C6_Witness ==
    /\ IsGaussian
    /\ lastop = "get_dependents"
    /\ SuppliedMu = <<Par("a")>>
    /\ SuppliedX = <<Par("b")>>
    /\ SuppliedSigma = SigVector(1, Par("s"))
    /\ ret = {"a"}

(* C7: in every state after construction params has exactly n slots        *)
(* param_0 .. param_{n-1}, slot param_i holding the i-th input parameter;  *)
(* for a samplable constraint x and mu have length n and x[i] is built     *)
(* from the i-th supplied observed value, paired with slot param_i.        *)
C7_SlotsAligned ==
    /\ IsSimple =>
          /\ Len(obj.params) = Len(args.params.v)
          /\ \A i \in 0..(Len(args.params.v) - 1) :
                /\ obj.params[i + 1].slot = ExpectedSlots[i + 1]
                /\ obj.params[i + 1].param = args.params.v[i + 1].p
    /\ IsGaussian =>
          /\ Len(obj.params) = NofMu
          /\ Len(obj.x) = NofMu
          /\ Len(obj.mu) = NofMu
          /\ \A i \in 0..(NofMu - 1) :
                /\ obj.params[i + 1].slot = ExpectedSlots[i + 1]
                /\ obj.params[i + 1].param = SuppliedMu[i + 1].p
                /\ obj.mu[i + 1] = SuppliedMu[i + 1].p
                /\ obj.x[i + 1] = ObservedParam(i + 1)
                /\ SuppliedX[i + 1].tag = "lit" =>
                      obj.x[i + 1] = obj.params[i + 1].param \o "_obs"

C7_Witness ==
    /\ IsGaussian
    /\ lastop = "sample"
    /\ NofMu = 2
    /\ obj.params = <<[slot |-> "param_0", param |-> "b"], [slot |-> "param_1", param |-> "a"]>>
    /\ obj.x = <<"b_obs", "b">>

(* C8: a value(), covariance, distribution, sample(n) or get_dependents()  *)
(* call, returning or raising, changes no Parameter value and nothing of   *)
(* the constraint's structure.                                             *)
C8_CallsArePure ==
    [][lastop' \in Calls => (pval' = pval /\ obj' = obj /\ args' = args)]_vars

C8_Witness ==
    /\ IsGaussian
    /\ lastop = "sample"
    /\ outcome = "returned"
    /\ pval["b"] = 2
    /\ "b" \in DOMAIN ret

(* C9: SimpleConstraint.value() calls func once, with no arguments, and    *)
(* returns its result unmodified whatever the listed params hold; a        *)
(* failure inside func reaches the caller, with no retry and no substitute.*)
C9_SimpleValueIsFunc ==
    (IsSimple /\ lastop = "value") =>
        /\ trace = <<"func">>
        /\ args.func = "const3" => (outcome = "returned" /\ ret = 3)
        /\ args.func = "read_a" => (outcome = "returned" /\ ret = pval["a"])
        /\ args.func = "raises" => (outcome = FuncErr /\ ret = None)

C9_Witness ==
    /\ IsSimple
    /\ lastop = "value"
    /\ args.func = "raises"
    /\ outcome = FuncErr
    /\ pval["a"] = 2

(* C10: on every distribution, value() or sample() access the covariance   *)
(* builder and its shape check run before the backend factory; when the    *)
(* sizes disagree the access ends in ShapeIncompatibleError without the    *)
(* factory being invoked, and a constraint that failed so fails again on   *)
(* every later access.                                                     *)
C10_CheckBeforeFactory ==
    (IsGaussian /\ lastop \in {"distribution", "value", "sample"}) =>
        /\ Len(trace) >= 2
        /\ trace[1] = "dist_params"
        /\ trace[2] = "create_covariance"
        /\ ~SizesAgree =>
              /\ outcome = ShapeErr
              /\ \A k \in 1..Len(trace) : trace[k] # "factory"
        /\ SizesAgree => (Len(trace) >= 3 /\ trace[3] = "factory")
        /\ failed => outcome = ShapeErr

C10_Witness ==
    /\ IsGaussian
    /\ lastop = "sample"
    /\ outcome = ShapeErr
    /\ failed
    /\ trace = <<"dist_params", "create_covariance">>
    /\ pval["s"] = 2

====
